---- MODULE Spec2Model ----
(***************************************************************************)
(* The LS-8 emulator of ls8/cpu.py and its driver ls8/ls8.py as a state    *)
(* machine: construction, load(file), run() and one step per dispatched    *)
(* instruction handler.  Python integers are unbounded and Python lists    *)
(* accept negative indices; both are modelled as the interpreter behaves.  *)
(***************************************************************************)
EXTENDS Integers, Sequences, FiniteSets, TLC

\* ------------------------------------------------------------------ opcodes
HLT == 1
LDI == 130
PRN == 71
MULT == 162
PUSH == 69
POP == 70
CALL == 80
RET == 17
ADD == 160
CMP == 167
JMP == 84
JEQ == 85
JNE == 86
AND == 168
OR == 170
XOR == 171
NOT == 105

\* self.ram = [0] * 256 ; self.reg = [0] * 8 ; self.sp = 7 ; reg[sp] = 0xF4
RamSize == 256
RegCount == 8
sp == 7
StackStart == 244

\* a slip in the dispatch table: the entry of NOT left out
ir_methodsMutant ==
    {HLT, LDI, PRN, MULT, PUSH, POP, CALL, RET, ADD, CMP, JMP, JEQ, JNE,
     AND, OR, XOR}

\* the keys of self.ir_methods
ir_methods ==
    {HLT, LDI, PRN, MULT, PUSH, POP, CALL, RET, ADD, CMP, JMP, JEQ, JNE,
     AND, OR, XOR, NOT}

\* ------------------------------------------------------------------ bounds
\* number of instructions one run may dispatch in the model
MaxSteps == 6

\* ADD and MULT are explored while every register is within -MaxOperand .. MaxOperand
\* (Python's integers are unbounded, the model checker's are 32 bits wide)
MaxOperand == 40000

\* ------------------------------------------------- Python list / int helpers
\* a Python list of length n accepts the indices -n .. n-1
ValidIndex(i, n) == i >= -n /\ i < n

\* the cell a valid index denotes (negative indices count from the end)
Cell(i, n) == IF i >= 0 THEN i ELSE i + n

\* self.ram and self.reg are Python lists: here sequences, cell c at position c + 1

RamOk(a) == ValidIndex(a, RamSize)
RamAt(m, a) == m[Cell(a, RamSize) + 1]
RegOk(r) == ValidIndex(r, RegCount)
RegAt(rg, r) == rg[Cell(r, RegCount) + 1]

\* Python's & | ^ ~ on unbounded two's-complement integers
RECURSIVE PyAnd(_, _)
PyAnd(x, y) ==
    IF x = 0 \/ y = 0 THEN 0
    ELSE IF x = -1 THEN y
    ELSE IF y = -1 THEN x
    ELSE ((x % 2) * (y % 2)) + 2 * PyAnd(x \div 2, y \div 2)

RECURSIVE PyOr(_, _)
PyOr(x, y) ==
    IF x = 0 THEN y
    ELSE IF y = 0 THEN x
    ELSE IF x = -1 \/ y = -1 THEN -1
    ELSE (IF (x % 2) + (y % 2) > 0 THEN 1 ELSE 0) + 2 * PyOr(x \div 2, y \div 2)

PyInvert(x) == -x - 1

RECURSIVE PyXor(_, _)
PyXor(x, y) ==
    IF x = 0 THEN y
    ELSE IF y = 0 THEN x
    ELSE IF x = -1 THEN PyInvert(y)
    ELSE IF y = -1 THEN PyInvert(x)
    ELSE (((x % 2) + (y % 2)) % 2) + 2 * PyXor(x \div 2, y \div 2)

\* ------------------------------------------------------------ program files
\* A file is a sequence of lines; a line is what line.strip().split() yields,
\* a sequence of tokens; a token is a sequence of one-character strings.
IsBit(c) == c = "0" \/ c = "1"

RECURSIVE BitsValue(_, _)
\* int(digits, 2) for a non-empty run of binary digits, most significant first
BitsValue(tok, acc) ==
    IF tok = <<>> THEN acc
    ELSE BitsValue(Tail(tok), 2 * acc + (IF Head(tok) = "1" THEN 1 ELSE 0))

\* the digits of a token after an optional sign
Digits(tok) ==
    IF tok # <<>> /\ (Head(tok) = "-" \/ Head(tok) = "+") THEN Tail(tok) ELSE tok

\* int(tok, 2) raises ValueError unless tok is [sign] binary digits
IsBinary(tok) ==
    /\ Digits(tok) # <<>>
    /\ \A i \in 1..Len(Digits(tok)) : IsBit(Digits(tok)[i])

\* int(tok, 2)
ParseBinary(tok) ==
    IF tok # <<>> /\ Head(tok) = "-"
    THEN 0 - BitsValue(Digits(tok), 0)
    ELSE BitsValue(Digits(tok), 0)

\* a line the loader skips: blank, or first token exactly "#"
IsSkipped(line) == Len(line) = 0 \/ line[1] = <<"#">>

RECURSIVE LoadLoop(_, _, _, _)
\* the body of load(): the for loop over the lines of the file.
\* Result: the memory, the diagnostics printed, the final address, and whether
\* the loop ended normally (no IndexError on self.ram[address]).
LoadLoop(lines, m, address, printed) ==
    IF lines = <<>> THEN [ram |-> m, out |-> printed, address |-> address, ok |-> TRUE]
    ELSE LET line == Head(lines) IN
         IF IsSkipped(line) THEN LoadLoop(Tail(lines), m, address, printed)
         ELSE IF ~IsBinary(line[1])
         THEN LoadLoop(Tail(lines), m, address + 1,
                       Append(printed, [kind |-> "Invalid number", val |-> 0,
                                        addr |-> 0, tok |-> line[1]]))
         ELSE IF ~RamOk(address)
         THEN [ram |-> m, out |-> printed, address |-> address, ok |-> FALSE]
         ELSE LoadLoop(Tail(lines),
                       [m EXCEPT ![Cell(address, RamSize) + 1] = ParseBinary(line[1])],
                       address + 1, printed)

\* ------------------------------------------------------ the files considered
RECURSIVE Bin(_, _)
\* the w-digit binary numeral of n, as a token
Bin(n, w) ==
    IF w = 0 THEN <<>>
    ELSE Append(Bin(n \div 2, w - 1), IF n % 2 = 1 THEN "1" ELSE "0")

\* a program file with one 8-digit binary byte per line
FileOf(bytes) == [i \in 1..Len(bytes) |-> << Bin(bytes[i], 8) >>]

\* -------------------------------------------------------------------- state
VARIABLES
    ram,        \* self.ram
    reg,        \* self.reg
    pc,         \* self.pc
    e, l, g,    \* self.e, self.l, self.g
    running,    \* self.running
    ir,         \* the local ir of run(): the opcode last fetched
    out,        \* what has been printed to standard output
    phase,      \* where the process of ls8.py is
    exitcode,   \* the exit status of the process, NoExit while it lives
    file,       \* the contents of the program file given on the command line
    steps,      \* number of instructions dispatched so far
    prev        \* pc, registers, flags and instruction bytes before the last dispatch

vars == <<ram, reg, pc, e, l, g, running, ir, out, phase, exitcode, file, steps, prev>>

cpu == <<ram, reg, pc, e, l, g, running, out>>

NoExit == -1
NoFile == <<>>
NoPrev == [pc |-> 0, reg |-> [i \in 1..RegCount |-> 0], fl |-> <<0, 0, 0>>,
           ins |-> <<>>]

\* CPU.__init__
Init ==
    /\ ram = [a \in 1..RamSize |-> 0]
    /\ reg = [i \in 1..RegCount |-> IF i = sp + 1 THEN StackStart ELSE 0]
    /\ running = FALSE
    /\ pc = 0
    /\ e = 0
    /\ l = 0
    /\ g = 0
    /\ ir = 0
    /\ out = <<>>
    /\ phase = "constructed"
    /\ exitcode = NoExit
    /\ file = NoFile
    /\ steps = 0
    /\ prev = NoPrev

\* an exception nothing catches ends the process with a traceback, status 1
Uncaught == phase' = "crashed" /\ exitcode' = 1

\* sys.exit(1)
SysExit == phase' = "exited" /\ exitcode' = 1

\* ------------------------------------------------------- fetch and decode
\* the bytes at a, a+1, a+2 that can be read: the decoded view of an instruction
Instr(m, a) ==
    IF ~RamOk(a) THEN <<>>
    ELSE IF ~RamOk(a + 1) THEN << RamAt(m, a) >>
    ELSE IF ~RamOk(a + 2) THEN << RamAt(m, a), RamAt(m, a + 1) >>
    ELSE << RamAt(m, a), RamAt(m, a + 1), RamAt(m, a + 2) >>

\* one iteration of the while loop of run() that fetches opcode op
Fetch(op) ==
    /\ phase = "running"
    /\ running
    /\ steps < MaxSteps
    /\ RamOk(pc)
    /\ RamAt(ram, pc) = op

\* bookkeeping of an iteration: ir = self.ram[self.pc]
Dispatched ==
    /\ ir' = RamAt(ram, pc)
    /\ steps' = steps + 1
    /\ prev' = [pc |-> pc, reg |-> reg, fl |-> <<e, l, g>>, ins |-> Instr(ram, pc)]
    /\ UNCHANGED file

\* the handler raised IndexError: the process dies where it stands
Raise(m, rg) ==
    /\ Uncaught
    /\ ram' = m
    /\ reg' = rg
    /\ UNCHANGED <<pc, e, l, g, running, out>>

\* ---------------------------------------------------------------------- ALU
AluAdd(x, y) == x + y
AluMult(x, y) == x * y
AluAnd(x, y) == PyAnd(x, y)
AluOr(x, y) == PyOr(x, y)
\* a slip in the XOR branch: | written for ^
AluXorMutant(x, y) == PyOr(x, y)
AluXor(x, y) == PyXor(x, y)
AluNot(x) == PyInvert(x)
CmpE(x, y) == IF x = y THEN 1 ELSE 0
\* a slip in the less-than flag: <= written for <
CmpLMutant(x, y) == IF x <= y THEN 1 ELSE 0
CmpL(x, y) == IF x < y THEN 1 ELSE 0
CmpG(x, y) == IF x > y THEN 1 ELSE 0

None == "None"

\* a slip in the ALU: ADD also sets the flags, from its result against zero
aluMutant(op, reg_a, reg_b, rg, fl) ==
    LET x == RegAt(rg, reg_a)
        y == RegAt(rg, reg_b)
        Set(v) == [ok |-> TRUE, fl |-> fl,
                   reg |-> [rg EXCEPT ![Cell(reg_a, RegCount) + 1] = v]]
        SetF(v) == [ok |-> TRUE,
                    fl |-> [e |-> CmpE(v, 0), l |-> CmpL(v, 0), g |-> CmpG(v, 0)],
                    reg |-> [rg EXCEPT ![Cell(reg_a, RegCount) + 1] = v]]
        Fail == [ok |-> FALSE, fl |-> fl, reg |-> rg]
        Both == RegOk(reg_a) /\ RegOk(reg_b)
    IN  CASE op = "ADD" -> IF Both THEN SetF(AluAdd(x, y)) ELSE Fail
          [] op = "MULT" -> IF Both THEN Set(AluMult(x, y)) ELSE Fail
          [] op = "CMP" ->
                IF Both
                THEN [ok |-> TRUE, reg |-> rg,
                      fl |-> [e |-> CmpE(x, y), l |-> CmpL(x, y), g |-> CmpG(x, y)]]
                ELSE Fail
          [] op = "AND" -> IF Both THEN Set(AluAnd(x, y)) ELSE Fail
          [] op = "OR" -> IF Both THEN Set(AluOr(x, y)) ELSE Fail
          [] op = "XOR" -> IF Both THEN Set(AluXor(x, y)) ELSE Fail
          [] op = "NOT" -> IF RegOk(reg_a) THEN Set(AluNot(x)) ELSE Fail
          [] OTHER -> Fail

\* CPU.alu: the registers and flags after the operation, ok = FALSE when it raised
alu(op, reg_a, reg_b, rg, fl) ==
    LET x == RegAt(rg, reg_a)
        y == RegAt(rg, reg_b)
        Set(v) == [ok |-> TRUE, fl |-> fl,
                   reg |-> [rg EXCEPT ![Cell(reg_a, RegCount) + 1] = v]]
        Fail == [ok |-> FALSE, fl |-> fl, reg |-> rg]
        Both == RegOk(reg_a) /\ RegOk(reg_b)
    IN  CASE op = "ADD" -> IF Both THEN Set(AluAdd(x, y)) ELSE Fail
          [] op = "MULT" -> IF Both THEN Set(AluMult(x, y)) ELSE Fail
          [] op = "CMP" ->
                IF Both
                THEN [ok |-> TRUE, reg |-> rg,
                      fl |-> [e |-> CmpE(x, y), l |-> CmpL(x, y), g |-> CmpG(x, y)]]
                ELSE Fail
          [] op = "AND" -> IF Both THEN Set(AluAnd(x, y)) ELSE Fail
          [] op = "OR" -> IF Both THEN Set(AluOr(x, y)) ELSE Fail
          [] op = "XOR" -> IF Both THEN Set(AluXor(x, y)) ELSE Fail
          [] op = "NOT" -> IF RegOk(reg_a) THEN Set(AluNot(x)) ELSE Fail
          [] OTHER -> Fail

\* a handler that reads n operand bytes, calls alu(op, ...) and adds width to pc
AluHandler(op, width) ==
    LET reg_one == RamAt(ram, pc + 1)
        reg_two == IF width = 3 THEN RamAt(ram, pc + 2) ELSE None
        r == alu(op, reg_one, reg_two, reg, [e |-> e, l |-> l, g |-> g])
    IN  IF RamOk(pc + 1) /\ (width = 3 => RamOk(pc + 2)) /\ r.ok
        THEN /\ reg' = r.reg
             /\ e' = r.fl.e
             /\ l' = r.fl.l
             /\ g' = r.fl.g
             /\ pc' = pc + width
             /\ UNCHANGED <<ram, running, out, phase, exitcode>>
        ELSE Raise(ram, reg)

\* ----------------------------------------------------------------- handlers
\* CPU.ram_write: despite its name it stores MDR in register MAR
ram_write(rg, MDR, MAR) == [rg EXCEPT ![Cell(MAR, RegCount) + 1] = MDR]

\* CPU.ram_read: despite its name it prints register MAR
ram_read(rg, MAR) == [kind |-> "PRN", val |-> RegAt(rg, MAR), addr |-> 0, tok |-> <<>>]

\* reg[sp] -= 1 and reg[sp] += 1
\* a slip in the stack discipline: the pointer moves by two on the way down
StackDecMutant(rg) == [rg EXCEPT ![sp + 1] = RegAt(rg, sp) - 2]
StackDec(rg) == [rg EXCEPT ![sp + 1] = RegAt(rg, sp) - 1]
StackInc(rg) == [rg EXCEPT ![sp + 1] = RegAt(rg, sp) + 1]

\* ret_addr = self.pc + 2
\* a slip in call: the width of a three-byte instruction used for CALL
RetAddrMutant(p) == p + 3
RetAddr(p) == p + 2

\* the conditions of jeq and jne on the equal flag
JeqTaken(flag) == flag = 1
\* a slip in jne: the condition of jeq copied unchanged
JneTakenMutant(flag) == flag = 1
JneTaken(flag) == flag = 0

hlt ==
    /\ Fetch(HLT)
    /\ Dispatched
    /\ running' = FALSE
    /\ SysExit
    /\ UNCHANGED <<ram, reg, pc, e, l, g, out>>

ldi ==
    /\ Fetch(LDI)
    /\ Dispatched
    /\ IF RamOk(pc + 1) /\ RamOk(pc + 2) /\ RegOk(RamAt(ram, pc + 1))
       THEN /\ reg' = ram_write(reg, RamAt(ram, pc + 2), RamAt(ram, pc + 1))
            /\ pc' = pc + 3
            /\ UNCHANGED <<ram, e, l, g, running, out, phase, exitcode>>
       ELSE Raise(ram, reg)

prn ==
    /\ Fetch(PRN)
    /\ Dispatched
    /\ IF RamOk(pc + 1) /\ RegOk(RamAt(ram, pc + 1))
       THEN /\ out' = Append(out, ram_read(reg, RamAt(ram, pc + 1)))
            /\ pc' = pc + 2
            /\ UNCHANGED <<ram, reg, e, l, g, running, phase, exitcode>>
       ELSE Raise(ram, reg)

\* the registers are small enough for the model to add or multiply any two
Bounded(rg) == \A i \in DOMAIN rg : rg[i] >= -MaxOperand /\ rg[i] <= MaxOperand

add == Fetch(ADD) /\ Bounded(reg) /\ Dispatched /\ AluHandler("ADD", 3)

mult == Fetch(MULT) /\ Bounded(reg) /\ Dispatched /\ AluHandler("MULT", 3)

compare == Fetch(CMP) /\ Dispatched /\ AluHandler("CMP", 3)

do_AND == Fetch(AND) /\ Dispatched /\ AluHandler("AND", 3)

do_OR == Fetch(OR) /\ Dispatched /\ AluHandler("OR", 3)

xor == Fetch(XOR) /\ Dispatched /\ AluHandler("XOR", 3)

do_NOT == Fetch(NOT) /\ Dispatched /\ AluHandler("NOT", 2)

\* a slip in push: the value stored at the stack pointer before the decrement
pushMutant ==
    /\ Fetch(PUSH)
    /\ Dispatched
    /\ LET reg1 == StackDec(reg)
           reg_num == RamAt(ram, pc + 1)
           top_of_stack_addr == RegAt(reg, sp)
       IN  IF RamOk(pc + 1) /\ RegOk(reg_num) /\ RamOk(top_of_stack_addr)
           THEN /\ ram' = [ram EXCEPT ![Cell(top_of_stack_addr, RamSize) + 1] =
                                       RegAt(reg1, reg_num)]
                /\ reg' = reg1
                /\ pc' = pc + 2
                /\ UNCHANGED <<e, l, g, running, out, phase, exitcode>>
           ELSE Raise(ram, reg1)
push ==
    /\ Fetch(PUSH)
    /\ Dispatched
    /\ LET reg1 == StackDec(reg)
           reg_num == RamAt(ram, pc + 1)
           top_of_stack_addr == RegAt(reg1, sp)
       IN  IF RamOk(pc + 1) /\ RegOk(reg_num) /\ RamOk(top_of_stack_addr)
           THEN /\ ram' = [ram EXCEPT ![Cell(top_of_stack_addr, RamSize) + 1] =
                                          RegAt(reg1, reg_num)]
                /\ reg' = reg1
                /\ pc' = pc + 2
                /\ UNCHANGED <<e, l, g, running, out, phase, exitcode>>
           ELSE Raise(ram, reg1)

pop ==
    /\ Fetch(POP)
    /\ Dispatched
    /\ LET top_of_stack_addr == RegAt(reg, sp)
           reg_num == RamAt(ram, pc + 1)
       IN  IF RamOk(top_of_stack_addr) /\ RamOk(pc + 1) /\ RegOk(reg_num)
           THEN /\ reg' = StackInc([reg EXCEPT ![Cell(reg_num, RegCount) + 1] =
                                               RamAt(ram, top_of_stack_addr)])
                /\ pc' = pc + 2
                /\ UNCHANGED <<ram, e, l, g, running, out, phase, exitcode>>
           ELSE Raise(ram, reg)

\* a slip in call: the target register read before the stack pointer moves
callMutant ==
    /\ Fetch(CALL)
    /\ Dispatched
    /\ LET ret_addr == RetAddr(pc)
           reg1 == StackDec(reg)
           top == RegAt(reg1, sp)
           ram1 == [ram EXCEPT ![Cell(top, RamSize) + 1] = ret_addr]
           reg_num == RamAt(ram1, pc + 1)
       IN  IF ~RamOk(top) THEN Raise(ram, reg1)
           ELSE IF RamOk(pc + 1) /\ RegOk(reg_num)
           THEN /\ ram' = ram1
                /\ reg' = reg1
                /\ pc' = RegAt(reg, reg_num)
                /\ UNCHANGED <<e, l, g, running, out, phase, exitcode>>
           ELSE Raise(ram1, reg1)
call ==
    /\ Fetch(CALL)
    /\ Dispatched
    /\ LET ret_addr == RetAddr(pc)
           reg1 == StackDec(reg)
           top == RegAt(reg1, sp)
           ram1 == [ram EXCEPT ![Cell(top, RamSize) + 1] = ret_addr]
           reg_num == RamAt(ram1, pc + 1)
       IN  IF ~RamOk(top) THEN Raise(ram, reg1)
           ELSE IF RamOk(pc + 1) /\ RegOk(reg_num)
           THEN /\ ram' = ram1
                /\ reg' = reg1
                /\ pc' = RegAt(reg1, reg_num)
                /\ UNCHANGED <<e, l, g, running, out, phase, exitcode>>
           ELSE Raise(ram1, reg1)

ret ==
    /\ Fetch(RET)
    /\ Dispatched
    /\ IF RamOk(RegAt(reg, sp))
       THEN /\ pc' = RamAt(ram, RegAt(reg, sp))
            /\ reg' = StackInc(reg)
            /\ UNCHANGED <<ram, e, l, g, running, out, phase, exitcode>>
       ELSE Raise(ram, reg)

\* the body of CPU.jmp, which jeq and jne call too
Jump ==
    IF RamOk(pc + 1) /\ RegOk(RamAt(ram, pc + 1))
    THEN /\ pc' = RegAt(reg, RamAt(ram, pc + 1))
         /\ UNCHANGED <<ram, reg, e, l, g, running, out, phase, exitcode>>
    ELSE Raise(ram, reg)

\* a slip in jeq / jne: the width of a three-byte instruction for a jump not taken
SkipMutant ==
    /\ pc' = pc + 3
    /\ UNCHANGED <<ram, reg, e, l, g, running, out, phase, exitcode>>

\* self.pc += 2 of a conditional jump not taken
Skip ==
    /\ pc' = pc + 2
    /\ UNCHANGED <<ram, reg, e, l, g, running, out, phase, exitcode>>

jmp == Fetch(JMP) /\ Dispatched /\ Jump

jeq == Fetch(JEQ) /\ Dispatched /\ IF JeqTaken(e) THEN Jump ELSE Skip

jne == Fetch(JNE) /\ Dispatched /\ IF JneTaken(e) THEN Jump ELSE Skip

\* the else branch of run(): no handler for the opcode
invalid ==
    /\ phase = "running"
    /\ running
    /\ steps < MaxSteps
    /\ RamOk(pc)
    /\ RamAt(ram, pc) \notin ir_methods
    /\ Dispatched
    /\ out' = Append(out, [kind |-> "Invalid instruction", val |-> RamAt(ram, pc),
                           addr |-> pc, tok |-> <<>>])
    /\ running' = FALSE
    /\ SysExit
    /\ UNCHANGED <<ram, reg, pc, e, l, g>>

\* ir = self.ram[self.pc] raises IndexError
fetch_error ==
    /\ phase = "running"
    /\ running
    /\ steps < MaxSteps
    /\ ~RamOk(pc)
    /\ Uncaught
    /\ steps' = steps + 1
    /\ UNCHANGED <<cpu, ir, file, prev>>

\* ------------------------------------------------------ the files considered
\* register operands and immediate values the programs are built from
Regs == {0, 1, sp}
Vals == {0, 1, 2, 8, 9, 200, 255}

I3(op, a, b) == <<op, a, b>>
I2(op, a) == <<op, a>>
I1(op) == <<op>>

AluOps == {ADD, MULT, CMP, AND, OR, XOR}
StackOps == {PUSH, POP}
JumpOps == {JMP, JEQ, JNE}
UnaryOps == {PRN, NOT, PUSH, POP, CALL, JMP, JEQ, JNE}

\* every instruction over Regs and Vals
Instrs ==
    {I3(LDI, a, v) : a \in Regs, v \in Vals}
    \cup {I3(op, a, b) : op \in AluOps, a \in Regs, b \in Regs}
    \cup {I2(op, a) : op \in UnaryOps, a \in Regs}
    \cup {I1(HLT), I1(RET)}

\* an ALU instruction on a (and b, unless it is NOT)
AluInstr(op, a, b) == IF op = NOT THEN I2(NOT, a) ELSE I3(op, a, b)

\* LDI a,v1; LDI b,v2; op a,b; PRN a [; HLT]
AluPrograms ==
    {I3(LDI, a, v) \o I3(LDI, b, w) \o AluInstr(op, a, b) \o I2(PRN, a) \o tail :
        a \in Regs, b \in Regs, v \in Vals, w \in Vals,
        op \in (AluOps \ {CMP}) \cup {NOT},
        tail \in {<<>>, I1(HLT)}}

\* LDI a,v1; LDI b,v2; CMP a,b; jump r; HLT
JumpPrograms ==
    {I3(LDI, a, v) \o I3(LDI, b, w) \o I3(CMP, a, b) \o I2(op, r) \o I1(HLT) :
        a \in Regs, b \in Regs, v \in Vals, w \in Vals, op \in JumpOps, r \in Regs}

\* LDI a,v1; LDI 0,v2; two stack instructions
StackPrograms ==
    {I3(LDI, a, v) \o I3(LDI, 0, w) \o I2(op1, x) \o I2(op2, y) :
        a \in {1, sp}, v \in Vals, w \in Vals,
        op1 \in StackOps, op2 \in StackOps, x \in Regs, y \in Regs}

\* LDI a,v1; LDI b,v2; CALL r; HLT; RET
CallPrograms ==
    {I3(LDI, a, v) \o I3(LDI, b, w) \o I2(CALL, r) \o I1(HLT) \o I1(RET) :
        a \in Regs, b \in Regs, v \in Vals, w \in Vals, r \in Regs}

\* every program of at most two instructions
ShortPrograms ==
    {<<>>} \cup Instrs \cup {i \o j : i \in Instrs, j \in Instrs}

\* operand bytes that name no register
BadRegs == {8, 255}

\* every instruction with an operand byte from BadRegs where a register is named
BadInstrs ==
    {I3(LDI, a, 9) : a \in BadRegs}
    \cup {I3(op, a, 0) : op \in AluOps, a \in BadRegs}
    \cup {I3(op, 0, b) : op \in AluOps, b \in BadRegs}
    \cup {I2(op, a) : op \in UnaryOps, a \in BadRegs}

\* [LDI 1,9;] an instruction of BadInstrs
BadOperandPrograms ==
    {head \o i : head \in {<<>>, I3(LDI, 1, 9)}, i \in BadInstrs}

\* LDI 7,v; CALL r with the stack pointer led into the CALL's own bytes
SelfCallPrograms ==
    {I3(LDI, sp, v) \o I2(CALL, r) : v \in {4, 5, 6}, r \in Regs}

\* the bytes 0, 1, 2, ... of a program of n bytes
LongProgram(n) == [i \in 1..n |-> (i - 1) % 256]

\* programs that fill memory, or are too large for it by one and two bytes
LongPrograms == {LongProgram(n) : n \in {RamSize, RamSize + 1, RamSize + 2}}

Programs ==
    AluPrograms \cup JumpPrograms \cup StackPrograms \cup CallPrograms
    \cup ShortPrograms \cup BadOperandPrograms \cup SelfCallPrograms
    \cup LongPrograms

\* lines of a program file other than one 8-digit byte: "", "#", "# x", "#x",
\* "12", "100000000", "-1", "111", and a byte followed by a comment
Blank == <<>>
Hash == << <<"#">> >>
HashWords == << <<"#">>, <<"x">> >>
HashGlued == << <<"#", "x">> >>
Malformed == << <<"1", "2">> >>
Wide == << <<"1">> \o Bin(0, 8) >>
Negative == << <<"-", "1">> >>
Short7 == << <<"1", "1", "1">> >>
Commented(byte) == << Bin(byte, 8), <<"#">>, <<"x">> >>

LoaderLines ==
    {Blank, Hash, HashWords, HashGlued, Malformed, Wide, Negative, Short7,
     Commented(HLT), << Bin(LDI, 8) >>, << Bin(PRN, 8) >>, << Bin(HLT, 8) >>}

\* every file of at most three lines from LoaderLines
LoaderFiles ==
    {<<>>} \cup {<<x>> : x \in LoaderLines}
    \cup {<<x, y>> : x \in LoaderLines, y \in LoaderLines}
    \cup {<<x, y, z>> : x \in LoaderLines, y \in LoaderLines, z \in LoaderLines}

Files == {FileOf(p) : p \in Programs} \cup LoaderFiles

\* ------------------------------------------------------------------- ls8.py
\* a slip in the loader: the IndexError of self.ram[address] swallowed
loadMutant ==
    /\ phase = "constructed"
    /\ \E f \in Files :
        LET r == LoadLoop(f, ram, 0, out)
        IN  /\ file' = f
            /\ ram' = r.ram
            /\ out' = r.out
            /\ phase' = "loaded" /\ UNCHANGED exitcode
    /\ UNCHANGED <<reg, pc, e, l, g, running, ir, steps, prev>>

\* cpu.load(sys.argv[1]) on a file that opens
load ==
    /\ phase = "constructed"
    /\ \E f \in Files :
        LET r == LoadLoop(f, ram, 0, out)
        IN  /\ file' = f
            /\ ram' = r.ram
            /\ out' = r.out
            /\ IF r.ok THEN phase' = "loaded" /\ UNCHANGED exitcode ELSE Uncaught
    /\ UNCHANGED <<reg, pc, e, l, g, running, ir, steps, prev>>

\* open(file_path) raises FileNotFoundError, which ls8.py reports
file_not_found ==
    /\ phase = "constructed"
    /\ out' = Append(out, [kind |-> "Couldn't open", val |-> 0, addr |-> 0,
                           tok |-> <<>>])
    /\ phase' = "no file"
    /\ exitcode' = 0
    /\ UNCHANGED <<ram, reg, pc, e, l, g, running, ir, file, steps, prev>>

\* cpu.run(): self.running = True, then the loop
run ==
    /\ phase = "loaded"
    /\ running' = TRUE
    /\ phase' = "running"
    /\ UNCHANGED <<ram, reg, pc, e, l, g, ir, out, exitcode, file, steps, prev>>

Next ==
    \/ load
    \/ file_not_found
    \/ run
    \/ hlt
    \/ ldi
    \/ prn
    \/ mult
    \/ push
    \/ pop
    \/ call
    \/ ret
    \/ add
    \/ compare
    \/ jmp
    \/ jeq
    \/ jne
    \/ do_AND
    \/ do_OR
    \/ xor
    \/ do_NOT
    \/ invalid
    \/ fetch_error

Spec == Init /\ [][Next]_vars

\* =================================================================== claims
\* the operand bytes of the instruction about to be dispatched
OperandA == RamAt(ram, pc + 1)
OperandB == RamAt(ram, pc + 2)

\* an unsigned 8-bit value, a register index of the register file
IsByte(v) == v \in 0..255
IsRegIndex(r) == r \in 0..(RegCount - 1)

\* the dispatched instruction has one / two register operands that name registers
OneRegister == RamOk(pc + 1) /\ IsRegIndex(OperandA)
TwoRegisters == OneRegister /\ RamOk(pc + 2) /\ IsRegIndex(OperandB)

\* the run has executed exactly LDI r1,v1; LDI r2,v2; ADD r1,r2 from address 0
\* of a freshly loaded engine, r1 and r2 registers, v1 and v2 bytes
RanLdiLdiAdd ==
    /\ phase = "running"
    /\ steps = 3
    /\ pc = 9
    /\ RamAt(ram, 0) = LDI /\ RamAt(ram, 3) = LDI /\ RamAt(ram, 6) = ADD
    /\ RamAt(ram, 7) = RamAt(ram, 1) /\ RamAt(ram, 8) = RamAt(ram, 4)
    /\ IsRegIndex(RamAt(ram, 1)) /\ IsRegIndex(RamAt(ram, 4))
    /\ IsByte(RamAt(ram, 2)) /\ IsByte(RamAt(ram, 5))

\* C1: after LDI r1,v1; LDI r2,v2; ADD r1,r2 on a freshly loaded engine,
\* reg[r1] = (v1 + v2) mod 256.  Stated for r1 # r2: with r1 = r2 the second
\* LDI overwrites v1, which is no matter of wraparound.
C1_AddWraps ==
    (RanLdiLdiAdd /\ RamAt(ram, 1) # RamAt(ram, 4))
        => RegAt(reg, RamAt(ram, 1)) = (RamAt(ram, 2) + RamAt(ram, 5)) % 256

\* C2: MUL a,b on registers holding bytes leaves reg[a] = (reg[a] * reg[b]) mod 256
C2_MultWraps ==
    [][(mult /\ TwoRegisters
            /\ IsByte(RegAt(reg, OperandA)) /\ IsByte(RegAt(reg, OperandB)))
        => RegAt(reg', OperandA) =
               (RegAt(reg, OperandA) * RegAt(reg, OperandB)) % 256]_vars

\* C3: NOT a on a register holding the byte v leaves reg[a] = 255 - v, a byte
C3_NotMasked ==
    [][(do_NOT /\ OneRegister /\ IsByte(RegAt(reg, OperandA)))
        => /\ RegAt(reg', OperandA) = 255 - RegAt(reg, OperandA)
           /\ IsByte(RegAt(reg', OperandA))]_vars

\* bit i of a byte
Bit(v, i) == (v \div (2 ^ i)) % 2

C5_Compare ==
    [][(compare /\ TwoRegisters)
        => /\ e' = (IF RegAt(reg, OperandA) = RegAt(reg, OperandB) THEN 1 ELSE 0)
           /\ l' = (IF RegAt(reg, OperandA) < RegAt(reg, OperandB) THEN 1 ELSE 0)
           /\ g' = (IF RegAt(reg, OperandA) > RegAt(reg, OperandB) THEN 1 ELSE 0)
           /\ reg' = reg]_vars

\* C5 witness: a CMP found E set by an earlier CMP and left E = 0, L = 1, G = 0
C5_Witness ==
    /\ ir = CMP
    /\ phase = "running"
    /\ prev.fl = <<1, 0, 0>>
    /\ <<e, l, g>> = <<0, 1, 0>>
    /\ reg = prev.reg

\* the last instruction executed was CMP a,b on two registers
AfterCmp ==
    /\ phase = "running"
    /\ ir = CMP
    /\ Len(prev.ins) = 3
    /\ IsRegIndex(prev.ins[2]) /\ IsRegIndex(prev.ins[3])

\* C6: right after CMP a,b, JEQ r goes to reg[r] if reg[a] = reg[b] and to
\* pc + 2 otherwise, JNE r the other way round; and in every state exactly one
\* of the two would jump
C6_CondJump ==
    [][/\ (AfterCmp /\ jeq /\ OneRegister)
            => pc' = (IF RegAt(reg, prev.ins[2]) = RegAt(reg, prev.ins[3])
                      THEN RegAt(reg, OperandA) ELSE pc + 2)
       /\ (AfterCmp /\ jne /\ OneRegister)
            => pc' = (IF RegAt(reg, prev.ins[2]) = RegAt(reg, prev.ins[3])
                      THEN pc + 2 ELSE RegAt(reg, OperandA))
       /\ JeqTaken(e) # JneTaken(e)
       /\ JeqTaken(e') # JneTaken(e')]_vars

\* C6 witness: LDI 0,200; LDI 1,200; CMP 0,1; JEQ 0 has jumped to address 200
C6_Witness ==
    /\ ir = JEQ
    /\ steps = 4
    /\ RamAt(ram, 6) = CMP /\ RamAt(ram, 7) = 0 /\ RamAt(ram, 8) = 1
    /\ prev.ins = <<JEQ, 0, HLT>>
    /\ RegAt(reg, 0) = 200 /\ RegAt(reg, 1) = 200
    /\ e = 1
    /\ pc = 200

\* this step is POP rB executing right after PUSH rA has executed, rA and rB
\* two different registers
PushThenPop ==
    /\ phase = "running"
    /\ ir = PUSH
    /\ Len(prev.ins) >= 2
    /\ IsRegIndex(prev.ins[2])
    /\ pop
    /\ phase' = "running"
    /\ OneRegister
    /\ OperandA # prev.ins[2]

\* C7 as claimed: PUSH rA; POP rB, rA # rB, leaves reg[rB] = reg[rA] before the
\* PUSH and SP = SP before the PUSH
C7_RoundTripAnyRegister ==
    [][PushThenPop
        => /\ RegAt(reg', OperandA) = RegAt(prev.reg, prev.ins[2])
           /\ RegAt(reg', sp) = RegAt(prev.reg, sp)]_vars

\* C7 amended: the same, for rA and rB other than register 7, the stack pointer
C7_RoundTrip ==
    [][(PushThenPop /\ prev.ins[2] # sp /\ OperandA # sp)
        => /\ RegAt(reg', OperandA) = RegAt(prev.reg, prev.ins[2])
           /\ RegAt(reg', sp) = RegAt(prev.reg, sp)]_vars

\* C7 witness: LDI 1,9; LDI 0,200; PUSH 0; POP 1 has run: 200 went through
\* mem[243] into register 1 and SP is back at 0xF4
C7_Witness ==
    /\ phase = "running"
    /\ ir = POP
    /\ steps = 4
    /\ RamAt(ram, 6) = PUSH /\ RamAt(ram, 7) = 0
    /\ prev.ins = <<POP, 1, 0>>
    /\ RegAt(prev.reg, sp) = StackStart - 1
    /\ RamAt(ram, StackStart - 1) = 200
    /\ RegAt(reg, 0) = 200 /\ RegAt(reg, 1) = 200
    /\ RegAt(reg, sp) = StackStart

\* C8: CALL r executed at address c and then RET executed, pc is c + 2
C8_CallRet ==
    [][(phase = "running" /\ ir = CALL /\ ret /\ phase' = "running")
        => pc' = prev.pc + 2]_vars

\* C8 witness: LDI 0,9; LDI 1,_; CALL 0 at address 6; HLT; RET at address 9:
\* the RET has returned to address 8 and SP is back at 0xF4
C8_Witness ==
    /\ phase = "running"
    /\ ir = RET
    /\ steps = 4
    /\ RamAt(ram, 6) = CALL /\ RamAt(ram, 7) = 0
    /\ RamAt(ram, 8) = HLT /\ RamAt(ram, 9) = RET
    /\ RegAt(reg, 0) = 9
    /\ prev.pc = 9
    /\ RamAt(ram, StackStart - 1) = 8
    /\ RegAt(reg, sp) = StackStart
    /\ pc = 8

\* the program of the spec's scenario: LDI r0,8; LDI r1,9; ADD r0,r1; PRN r0; HLT
C9Program == I3(LDI, 0, 8) \o I3(LDI, 1, 9) \o I3(ADD, 0, 1) \o I2(PRN, 0) \o I1(HLT)

\* the process has ended, by sys.exit or by an exception
Ended == phase = "exited" \/ phase = "crashed"

\* C9: the run of LDI r0,8; LDI r1,9; ADD r0,r1; PRN r0; HLT prints exactly 17
\* and halts cleanly: running is false and the end is no error
C9_HaltsCleanly ==
    (file = FileOf(C9Program) /\ Ended)
        => /\ out = << [kind |-> "PRN", val |-> 17, addr |-> 0, tok |-> <<>>] >>
           /\ ~running
           /\ phase = "exited"
           /\ exitcode = 0

\* what load() made of the file: memory, diagnostics, first address past it
Loaded == LoadLoop(file, [a \in 1..RamSize |-> 0], 0, <<>>)

\* opcodes of the three-byte instructions that transfer no control
Wide3 == {LDI, MULT, ADD, CMP, AND, OR, XOR}

RECURSIVE Straight(_, _, _, _)
\* memory m holds, from address a up to n, whole instructions with opcodes in
\* Wide3 or two, register operands in [0,7] and byte immediates
Straight(m, a, n, two) ==
    IF a = n THEN TRUE
    ELSE IF a > n THEN FALSE
    ELSE IF RamAt(m, a) \in Wide3
    THEN /\ a + 2 < n
         /\ IsRegIndex(RamAt(m, a + 1))
         /\ IF RamAt(m, a) = LDI THEN IsByte(RamAt(m, a + 2))
                                 ELSE IsRegIndex(RamAt(m, a + 2))
         /\ Straight(m, a + 3, n, two)
    ELSE IF RamAt(m, a) \in two
    THEN /\ a + 1 < n
         /\ IsRegIndex(RamAt(m, a + 1))
         /\ Straight(m, a + 2, n, two)
    ELSE FALSE

\* ld, what load() made of the file, is a straight-line program of n < 256
\* bytes without HLT in zero-filled memory, its two-byte instructions drawn from two
StraightLine(ld, two) ==
    /\ phase \in {"loaded", "running", "exited", "crashed"}
    /\ ld.ok
    /\ ld.address < RamSize
    /\ Straight(ld.ram, 0, ld.address, two)

\* the run ended in the else branch of run(): opcode 0 reported at address n
InvalidAtEnd(n) ==
    /\ phase = "exited"
    /\ ~running
    /\ pc = n
    /\ ir = 0
    /\ out # <<>>
    /\ out[Len(out)] = [kind |-> "Invalid instruction", val |-> 0, addr |-> n,
                        tok |-> <<>>]

\* C10 as claimed: a straight-line program of LDI, ALU instructions, PRN, NOT,
\* PUSH and POP halts only by InvalidInstruction(0, n).  Stated for the runs
\* that end in sys.exit, leaving aside those an IndexError ends.
C10_RunsOffEndAnyProgram ==
    phase = "exited"
        => LET ld == Loaded
           IN  StraightLine(ld, {PRN, NOT, PUSH, POP}) => InvalidAtEnd(ld.address)

\* the number of instructions from address a up to n
RECURSIVE Count(_, _, _)
Count(m, a, n) ==
    IF a >= n THEN 0
    ELSE 1 + Count(m, a + (IF RamAt(m, a) \in Wide3 THEN 3 ELSE 2), n)

\* C10 amended: a straight-line program without PUSH and POP runs with memory
\* untouched, pc never past n, and ends only by InvalidInstruction(0, n),
\* right after its last instruction
C10_RunsOffEnd ==
    LET ld == Loaded
    IN  StraightLine(ld, {PRN, NOT})
            => /\ ram = ld.ram
               /\ phase = "running" => (running /\ pc <= ld.address)
               /\ Ended => /\ InvalidAtEnd(ld.address)
                           /\ steps = Count(ld.ram, 0, ld.address) + 1

\* C10 witness: LDI 0,200; LDI 1,2; MUL 0,1; PRN 0 (11 bytes) has printed and
\* then stopped on opcode 0 at address 11
C10_Witness ==
    /\ phase = "exited"
    /\ steps = 5
    /\ pc = 11
    /\ RamAt(ram, 6) = MULT /\ RamAt(ram, 9) = PRN
    /\ Len(out) = 2
    /\ StraightLine(Loaded, {PRN, NOT})
    /\ InvalidAtEnd(11)

\* the file is a program of bytes: every line one token, a binary numeral of a
\* value in [0,255]
AllBytes(f) ==
    \A i \in 1..Len(f) :
        /\ Len(f[i]) = 1
        /\ IsBinary(f[i][1])
        /\ IsByte(ParseBinary(f[i][1]))

\* memory m holds byte i of the file at address i for the first n bytes
CopiedTo(m, f, n) == \A i \in 0..(n - 1) : RamAt(m, i) = ParseBinary(f[i + 1][1])

\* C11: loading a program of more than 256 bytes fails: the load is abandoned
\* on the first byte past address 255 with memory holding bytes 0..255 and
\* nothing else written, and the run never starts; loading a program of at
\* most 256 bytes leaves byte i at address i for every i and zero elsewhere.
\* The failure in the source is the IndexError of self.ram[address], which
\* nothing catches.
C11_Load ==
    /\ (Len(file) > RamSize /\ AllBytes(file))
        => /\ phase = "crashed"
           /\ exitcode = 1
           /\ steps = 0
           /\ ~running
           /\ Len(ram) = RamSize
           /\ CopiedTo(ram, file, RamSize)
    /\ (phase = "loaded" /\ AllBytes(file))
        => /\ Len(file) <= RamSize
           /\ Len(ram) = RamSize
           /\ CopiedTo(ram, file, Len(file))
           /\ \A a \in Len(file)..(RamSize - 1) : RamAt(ram, a) = 0

\* C11 witness: the load of the 257-byte program has failed after filling
\* memory up to address 255
C11_Witness ==
    /\ phase = "crashed"
    /\ steps = 0
    /\ Len(file) = RamSize + 1
    /\ AllBytes(file)
    /\ RamAt(ram, 0) = 0
    /\ RamAt(ram, RamSize - 1) = 255

\* C12: PUSH or CALL at SP = 0, and POP or RET at SP = 256, is a fatal stack
\* fault: the engine does not go on running, SP has not left [0,255], and a
\* PUSH or CALL at SP = 0 has written no memory cell
C12_StackFaults ==
    [][/\ ((push \/ call) /\ RegAt(reg, sp) = 0)
            => /\ phase' # "running"
               /\ ram' = ram
               /\ RegAt(reg', sp) \in 0..255
       /\ ((pop \/ ret) /\ RegAt(reg, sp) = RamSize)
            => phase' # "running"]_vars

\* an address of memory as the specification has it
IsAddress(a) == a \in 0..(RamSize - 1)

\* C13: pc is always in [0,255], and every address an instruction uses is too:
\* its opcode at pc, its operands at pc+1 and pc+2, and the stack cell a PUSH
\* or CALL writes (at SP - 1) and a POP or RET reads (at SP)
C13_AddressesInRange ==
    [][/\ IsAddress(pc')
       /\ (ldi \/ add \/ mult \/ compare \/ do_AND \/ do_OR \/ xor)
            => IsAddress(pc) /\ IsAddress(pc + 1) /\ IsAddress(pc + 2)
       /\ (prn \/ do_NOT \/ push \/ pop \/ call \/ jmp \/ jeq \/ jne)
            => IsAddress(pc) /\ IsAddress(pc + 1)
       /\ (hlt \/ ret \/ invalid) => IsAddress(pc)
       /\ (push \/ call) => IsAddress(RegAt(reg, sp) - 1)
       /\ (pop \/ ret) => IsAddress(RegAt(reg, sp))]_vars

\* C14: in every state reached by running a program of bytes, every memory
\* cell holds a value in [0,255]
C14_CellsAreBytes ==
    (\A a \in 0..(RamSize - 1) : IsByte(RamAt(ram, a))) \/ ~AllBytes(file)

\* the handlers that index the register file with their first / second operand
UsesOperandA ==
    \/ ldi \/ prn \/ add \/ mult \/ compare \/ do_AND \/ do_OR \/ xor \/ do_NOT
    \/ push \/ pop \/ call \/ jmp
    \/ (jeq /\ JeqTaken(e))
    \/ (jne /\ JneTaken(e))
UsesOperandB == add \/ mult \/ compare \/ do_AND \/ do_OR \/ xor

\* C15: an instruction whose register operand is a byte outside [0,7] reads and
\* writes no register and changes nothing else: registers, memory, flags and
\* output are as before
C15_BadRegisterOperand ==
    [][(\/ UsesOperandA /\ RamOk(pc + 1) /\ IsByte(OperandA) /\ ~IsRegIndex(OperandA)
        \/ UsesOperandB /\ RamOk(pc + 2) /\ IsByte(OperandB) /\ ~IsRegIndex(OperandB))
        => /\ reg' = reg
           /\ ram' = ram
           /\ out' = out
           /\ <<e', l', g'>> = <<e, l, g>>]_vars

\* C16: E, L and G are 0 in the constructed engine, and every step other than
\* a CMP (every other instruction, whether it completes or raises, the load,
\* the start of the run, the invalid-opcode exit) leaves all three unchanged
C16_FlagsFrame ==
    [][/\ phase = "constructed" => (e = 0 /\ l = 0 /\ g = 0)
       /\ ~compare => (e' = e /\ l' = l /\ g' = g)]_vars

\* C16 witness: CMP 0,7 set L (0 < 0xF4) and the ADD after it has executed
\* with E, L, G as the CMP left them
C16_Witness ==
    /\ phase = "running"
    /\ steps = 2
    /\ RamAt(ram, 0) = CMP /\ RamAt(ram, 1) = 0 /\ RamAt(ram, 2) = sp
    /\ ir = ADD
    /\ prev.fl = <<0, 1, 0>>
    /\ <<e, l, g>> = <<0, 1, 0>>

\* the handler of this step returned to the loop of run(): nothing was raised
Completes == phase' = "running"

\* C17: an instruction that completes moves pc by its width or sets it, never
\* both: the three-byte instructions add 3; PRN, NOT, PUSH, POP and a JEQ / JNE
\* not taken add 2; JMP and a JEQ / JNE taken leave pc = reg[operand1]; CALL
\* leaves pc = reg[operand1], operand1 being the byte at pc + 1 as CALL reads
\* it, after its push; RET leaves pc = the value at mem[SP]; HLT leaves pc as
\* it is
C17_PcWidth ==
    [][/\ (Completes /\ (ldi \/ mult \/ add \/ compare \/ do_AND \/ do_OR \/ xor))
            => pc' = pc + 3
       /\ (Completes /\ (prn \/ do_NOT \/ push \/ pop))
            => pc' = pc + 2
       /\ (Completes /\ ((jeq /\ ~JeqTaken(e)) \/ (jne /\ ~JneTaken(e))))
            => pc' = pc + 2
       /\ (Completes /\ (jmp \/ (jeq /\ JeqTaken(e)) \/ (jne /\ JneTaken(e))))
            => /\ pc' = RegAt(reg', OperandA)
               /\ reg' = reg
       /\ (Completes /\ call)
            => pc' = RegAt(reg', RamAt(ram', pc + 1))
       /\ (Completes /\ ret)
            => pc' = RamAt(ram, RegAt(reg, sp))
       /\ hlt => pc' = pc]_vars

\* C17 witness: CALL 7 at address 6 has completed: pc is the decremented stack
\* pointer, 0xF3, not 0xF3 + 2
C17_Witness ==
    /\ phase = "running"
    /\ ir = CALL
    /\ prev.pc = 6
    /\ prev.ins[2] = sp
    /\ RegAt(prev.reg, sp) = StackStart
    /\ RegAt(reg, sp) = StackStart - 1
    /\ pc = StackStart - 1

IsComment(line) == Len(line) > 0 /\ line[1] # <<>> /\ Head(line[1]) = "#"

RECURSIVE ClaimedLoad(_, _, _, _)
\* the load as C19 describes it: blank and comment lines consume no address, a
\* malformed line is reported and consumes one leaving its cell, a valid line
\* is stored at the current address
ClaimedLoad(lines, m, address, printed) ==
    IF lines = <<>> THEN [ram |-> m, out |-> printed]
    ELSE LET line == Head(lines) IN
         IF Len(line) = 0 \/ IsComment(line)
         THEN ClaimedLoad(Tail(lines), m, address, printed)
         ELSE IF ~IsBinary(line[1])
         THEN ClaimedLoad(Tail(lines), m, address + 1,
                          Append(printed, [kind |-> "Invalid number", val |-> 0,
                                           addr |-> 0, tok |-> line[1]]))
         ELSE ClaimedLoad(Tail(lines),
                          [m EXCEPT ![address + 1] = ParseBinary(line[1])],
                          address + 1, printed)

\* C19: the load of a file of fewer than 256 lines is never aborted by a
\* malformed line: it ends with every malformed line reported and its cell
\* left, every valid line stored at the address after the lines before it that
\* consume one, and blank and comment lines consuming none
C19_LoaderLines ==
    [][(load /\ Len(file') < RamSize)
        => /\ phase' = "loaded"
           /\ ram' = ClaimedLoad(file', ram, 0, out).ram
           /\ out' = ClaimedLoad(file', ram, 0, out).out]_vars

\* operand byte r names register 7 (as 7, or as -1 counted from the end)
NamesSp(r) == Cell(r, RegCount) = sp

\* C20: PUSH and CALL decrement SP before they read the register their operand
\* names.  PUSH 7 stores old SP - 1 at mem[old SP - 1] and CALL 7 sets pc to
\* old SP - 1; with any other register, PUSH stores and CALL jumps to the value
\* the register held before the instruction.  CALL's operand is the byte at
\* pc + 1 as CALL reads it, after its push.
C20_DecrementFirst ==
    [][/\ (push /\ Completes)
            => /\ RegAt(reg', sp) = RegAt(reg, sp) - 1
               /\ RamAt(ram', RegAt(reg, sp) - 1) =
                    (IF NamesSp(OperandA) THEN RegAt(reg, sp) - 1
                                          ELSE RegAt(reg, OperandA))
       /\ (call /\ Completes)
            => /\ RegAt(reg', sp) = RegAt(reg, sp) - 1
               /\ pc' = (IF NamesSp(RamAt(ram', pc + 1))
                         THEN RegAt(reg, sp) - 1
                         ELSE RegAt(reg, RamAt(ram', pc + 1)))]_vars

\* C20 witness: PUSH 7 at SP = 0xF4 has stored 0xF3, the decremented pointer,
\* at mem[0xF3]
C20_Witness ==
    /\ phase = "running"
    /\ ir = PUSH
    /\ prev.ins[2] = sp
    /\ RegAt(prev.reg, sp) = StackStart
    /\ RegAt(reg, sp) = StackStart - 1
    /\ RamAt(ram, StackStart - 1) = StackStart - 1

====
